---- MODULE Spec2Model ----
(***************************************************************************)
(* A model of the tangerine set accumulator (src/src/lib.rs and the        *)
(* in-memory store of src/src/store/mem_store/mod.rs): the primality test  *)
(* is_prime / miller_rabin, the hash-to-prime mapping, the add and         *)
(* get_witness operations over a store, and the two-thread search for a    *)
(* pair of distinct primes.                                                *)
(*                                                                         *)
(* BigUint is an unbounded natural number.  Every number of the model is   *)
(* below 2^20, and MulMod splits its products so that no intermediate      *)
(* value leaves the range of the model checker's integers; the arithmetic  *)
(* is exact, as BigUint's is.                                              *)
(***************************************************************************)
EXTENDS Integers, Sequences, FiniteSets, TLC

(***************************************************************************)
(* Bounds of the model.                                                    *)
(***************************************************************************)
\* candidates 0..MaxSmallCandidate are given to is_prime, beside the large ones
MaxSmallCandidate == 60
\* the number of add calls in one run of the accumulator
MaxAdds == 3
\* generators 2..MaxGenerator
MaxGenerator == 2
\* the candidates one search for a prime looks at, after the first
MaxSearch == 36
\* invocations of hash_value_to_prime on one (value, nonce) pair
MaxInvocations == 2
\* get_prime draws candidates of SizeInBits bits
SizeInBits == 3

(***************************************************************************)
(* BigUint arithmetic.                                                     *)
(***************************************************************************)
\* (x * y) mod m for x, y < m <= 2^20, exact
MulMod(x, y, m) ==
    (((x * (y \div 1024)) % m) * 1024 + x * (y % 1024)) % m

\* one step of square-and-multiply: r^2 * base^bit mod m, for the bit of
\* weight w of the exponent e
BitStep(r, base, e, w, m) ==
    IF (e \div w) % 2 = 1 THEN MulMod(MulMod(r, r, m), base, m)
    ELSE MulMod(r, r, m)

\* five steps, for the five lowest bits of e, from the power h of the higher
\* bits.  Every intermediate power is bound as a value (the element of a
\* one-element set), so that it is computed once.
FiveSteps(h, base, e, m) ==
    {BitStep(r4, base, e, 1, m) : r4 \in
    {BitStep(r3, base, e, 2, m) : r3 \in
    {BitStep(r2, base, e, 4, m) : r2 \in
    {BitStep(r1, base, e, 8, m) : r1 \in
    {BitStep(h, base, e, 16, m)}}}}}

\* square-and-multiply from the most significant bit, five bits in each
\* call: the one-element set of base^e mod m
RECURSIVE PowLoop(_, _, _)
PowLoop(base, e, m) ==
    IF e = 0 THEN {1 % m}
    ELSE UNION {FiveSteps(h, base, e, m) : h \in PowLoop(base, e \div 32, m)}

\* BigUint::modpow(exponent, modulus); the modulus is never zero in the model.
\* The arguments are bound as values before the loop starts.
ModPow(base, e, m) ==
    CHOOSE r \in UNION {PowLoop(arg[1], arg[2], arg[3]) :
                           arg \in {<<base % m, e, m>>}} : TRUE

(***************************************************************************)
(* is_prime and miller_rabin.                                              *)
(***************************************************************************)
small_primes ==
    << 2, 3, 5, 7, 11, 13, 17, 19, 23, 29, 31, 37, 41, 43, 47, 53, 59, 61,
       67, 71, 73, 79, 83, 89, 97, 101, 103, 107, 109, 113, 127, 131, 137,
       139, 149, 151, 157, 163, 167, 173, 179, 181, 191, 193, 197, 199, 211,
       223, 227, 229, 233, 239, 241, 251, 257, 263, 269, 271, 277, 281, 283,
       293, 307, 311, 313, 317, 331, 337, 347, 349, 353, 359, 367, 373, 379,
       383, 389, 397, 401, 409, 419, 421, 431, 433, 439, 443, 449, 457, 461,
       463, 467, 479, 487, 491, 499, 503, 509, 521, 523, 541, 547, 557, 563,
       569, 571, 577, 587, 593, 599, 601, 607, 613, 617, 619, 631, 641, 643,
       647, 653, 659, 661, 673, 677, 683, 691, 701, 709, 719, 727, 733, 739,
       743, 751, 757, 761, 769, 773, 787, 797, 809, 811, 821, 823, 827, 829,
       839, 853, 857, 859, 863, 877, 881, 883, 887, 907, 911, 919, 929, 937,
       941, 947, 953, 967, 971, 977, 983, 991, 997 >>

\* the number of random-witness trials of miller_rabin
Trials == 5

\* "if less than two, not prime"
LessThanTwo(c) == c = 0 \/ c = 1

\* one pass of the loop over small_primes, at index k:
\* "true" / "false" is the value returned, "next" goes on with the loop
SmallPrimeCheckDivisionFirst(c, kk) ==
    IF ModPow(c, 1, small_primes[kk]) = 0 THEN "false"
    ELSE IF c = small_primes[kk] THEN "true"
    ELSE "next"
SmallPrimeCheck(c, kk) ==
    IF c = small_primes[kk] THEN "true"
    ELSE IF ModPow(c, 1, small_primes[kk]) = 0 THEN "false"
    ELSE "next"

\* the values rng.gen_biguint_range(2, candidate - 1) may return: any a with
\* 2 <= a < candidate - 1.  The model draws from a sample of that range:
\* its two ends, 3, and 990 and 1295, the two least strong liars of 1009^2.
WitnessChoices(c) == {aa \in {2, 3, 990, 1295, c - 2} : 2 <= aa /\ aa < c - 1}

\* the body of the squaring loop: i = i + 1; v = v.modpow(2, candidate)
SquareLoopBodyNoCount(c, vv, ii) == [i |-> ii, v |-> ModPow(vv, 2, c)]
SquareLoopBody(c, vv, ii) == [i |-> ii + 1, v |-> ModPow(vv, 2, c)]

(***************************************************************************)
(* The functions as operators.  A call that draws random numbers is the    *)
(* set of the values it may return.                                        *)
(***************************************************************************)
\* the loop over small_primes: what the first pass that returns returns,
\* "next" when no pass does
SmallPrimeLoop(c) ==
    LET decided == {kk \in 1..Len(small_primes) : SmallPrimeCheck(c, kk) # "next"}
    IN  IF decided = {} THEN "next"
        ELSE SmallPrimeCheck(c, CHOOSE kk \in decided : \A jj \in decided : kk <= jj)

\* while d is even: d /= 2, t += 1.  Called with dd > 0 only.
RECURSIVE FactorOutTwos(_, _)
FactorOutTwos(dd, tt) ==
    IF ModPow(dd, 1, 2) = 0 THEN FactorOutTwos(dd \div 2, tt + 1)
    ELSE [d |-> dd, t |-> tt]

\* the inner while loop of one trial: FALSE is "return false"
RECURSIVE SquareLoop(_, _, _, _)
SquareLoop(c, vv, ii, tt) ==
    IF vv # c - 1
    THEN IF ii = tt - 1 THEN FALSE
         ELSE LET body == SquareLoopBody(c, vv, ii)
              IN  SquareLoop(c, body.v, body.i, tt)
    ELSE TRUE

\* one trial with the witness aa: TRUE when the trial does not return false
TrialPasses(c, dd, tt, aa) ==
    LET vv == ModPow(aa, dd, c)
    IN  IF vv # 1 THEN SquareLoop(c, vv, 0, tt) ELSE TRUE

\* the trials from number n on, given what the single draws may do
RECURSIVE TrialsFrom(_, _)
TrialsFrom(passes, n) ==
    IF n = Trials THEN {TRUE}
    ELSE UNION {IF p THEN TrialsFrom(passes, n + 1) ELSE {FALSE} : p \in passes}

\* miller_rabin(candidate): the set of values it may return
miller_rabin(c) ==
    LET dt     == FactorOutTwos(c - 1, 0)
        passes == {TrialPasses(c, dt.d, dt.t, aa) : aa \in WitnessChoices(c)}
    IN  TrialsFrom(passes, 0)

\* is_prime(candidate): the set of values it may return
is_prime(c) ==
    IF LessThanTwo(c) THEN {FALSE}
    ELSE LET r == SmallPrimeLoop(c)
         IN  IF r = "true" THEN {TRUE}
             ELSE IF r = "false" THEN {FALSE}
             ELSE miller_rabin(c)

(***************************************************************************)
(* hash_value_to_prime.                                                    *)
(***************************************************************************)
\* SHA-256 is a library function (crate crypto_hash).  The model puts a
\* fixed function in its place: the sum of the bytes, each plus one, selects
\* one of six digests of three bytes.  The digests are 0, 90, 114, 524, 1000
\* and 1018058, so that the search that starts at them meets 0 and 1, the
\* table, primes above the table, and the composite 1009^2.
DigestTable ==
    << <<0, 0, 90>>, <<15, 136, 202>>, <<0, 3, 232>>,
       <<0, 0, 0>>, <<0, 2, 12>>, <<0, 0, 114>> >>

ByteSum(bytes) ==
    Cardinality({p \in (DOMAIN bytes) \X (0..255) : p[2] <= bytes[p[1]]})

hash_byte_sequence(bytes) ==
    DigestTable[((ByteSum(bytes) % 29) % Len(DigestTable)) + 1]

\* BigUint::from_bytes_be
RECURSIVE from_bytes_be_loop(_, _, _)
from_bytes_be_loop(bytes, j, acc) ==
    IF j > Len(bytes) THEN acc
    ELSE from_bytes_be_loop(bytes, j + 1, acc * 256 + bytes[j])

from_bytes_be(bytes) == from_bytes_be_loop(bytes, 1, 0)

\* loop { if is_prime(candidate) { return candidate } candidate += 1 }:
\* the values the loop may return when it is entered with the candidate c.
\* The loop returns cc when is_prime may accept cc and may reject every
\* candidate from c to cc - 1, that is up to the first candidate that
\* is_prime accepts whatever it draws; MaxSearch candidates are looked at.
PrimeSearch(c) ==
    LET verdicts == [cc \in c .. (c + MaxSearch) |-> is_prime(cc)] @@ <<>>
        certain  == {cc \in DOMAIN verdicts : verdicts[cc] = {TRUE}}
        stop     == CHOOSE cc \in certain : \A x \in certain : cc <= x
    IN  {cc \in c .. stop : TRUE \in verdicts[cc]}

\* the candidate the search starts at
FirstCandidate(val, non) == from_bytes_be(hash_byte_sequence(val \o non))

\* the values given to add and get_witness: "H", "i", "Hi"
Values == {<<72>>, <<105>>, <<72, 105>>}

\* rand::thread_rng().gen::<[u8; 32]>(): the model draws among the nonces of
\* 32 equal bytes 0 or 1
Nonces == {[j \in 1..32 |-> byte] : byte \in {0, 1}}

\* the search of hash_value_to_prime for every (value, nonce) of the model,
\* computed once (@@ makes the function a table of values)
PrimeSearchTable ==
    [x \in Values \X Nonces |-> PrimeSearch(FirstCandidate(x[1], x[2]))] @@ <<>>

\* hash_value_to_prime(value, nonce): the set of values it may return
hash_value_to_prime(val, non) == PrimeSearchTable[<<val, non>>]

VARIABLES
    \* one call of is_prime, statement by statement
    candidate, pc, k, d, t, trial, v, i, result,
    \* calls of hash_value_to_prime on one (value, nonce) pair
    h_value, h_nonce, h_candidate, h_pc, h_returned,
    \* the MemStore of a SetAccumulator
    generator, members, modulo, state,
    \* the add calls made so far, and what the last call returned
    adds, ret,
    \* get_distinct_primes: the searches of get_prime, the main thread
    gp, main_pc, a, b, accepted

primeVars == <<candidate, pc, k, d, t, trial, v, i, result>>
hashVars == <<h_value, h_nonce, h_candidate, h_pc, h_returned>>
accVars == <<generator, members, modulo, state, adds, ret>>
pairVars == <<gp, main_pc, a, b, accepted>>
vars == <<primeVars, hashVars, accVars, pairVars>>

(***************************************************************************)
(* The states in which a part of the model is not running.                 *)
(***************************************************************************)
NoResult == [kind |-> "none", value |-> <<>>, witness |-> 0, nonce |-> <<>>]
Searchers == {"join_handle_a", "join_handle_b", "main"}
IdlePrime ==
    /\ candidate = 0 /\ pc = "returned"
    /\ k = 1 /\ d = 0 /\ t = 0 /\ trial = 0 /\ v = 0 /\ i = 0
    /\ result = "none"
IdleHash ==
    /\ h_value = <<>> /\ h_nonce = <<>> /\ h_candidate = 0
    /\ h_pc = "off" /\ h_returned = <<>>
IdleAcc ==
    /\ generator = 0 /\ members = <<>> /\ modulo = 1 /\ state = 0
    /\ adds = <<>> /\ ret = NoResult
IdlePair ==
    /\ gp = [s \in Searchers |-> [pc |-> "idle", candidate |-> 0]]
    /\ main_pc = "off" /\ a = 0 /\ b = 0 /\ accepted = {}

(***************************************************************************)
(* One call of is_prime.                                                   *)
(***************************************************************************)
\* the candidates given to is_prime: the small ones; 87 = 3 * 29; 997, the
\* last entry of the table; 1003 = 17 * 59; primes above the table; and
\* 1009^2 and 1009 * 1013, composites with no factor in the table
Candidates ==
    (0 .. MaxSmallCandidate)
        \cup {87, 997, 1003, 1009, 1013, 1018081, 1018091, 1022117}

InitPrime ==
    /\ candidate \in Candidates
    /\ pc = "is_prime"
    /\ k = 1 /\ d = 0 /\ t = 0 /\ trial = 0 /\ v = 0 /\ i = 0
    /\ result = "none"
    /\ IdleHash /\ IdleAcc /\ IdlePair

Return(r) == pc' = "returned" /\ result' = r

\* is_prime: the test for 0 and 1
IsPrimeEntry ==
    /\ pc = "is_prime"
    /\ IF LessThanTwo(candidate)
       THEN Return(FALSE)
       ELSE pc' = "small_primes" /\ result' = result
    /\ UNCHANGED <<candidate, k, d, t, trial, v, i>>
    /\ UNCHANGED <<hashVars, accVars, pairVars>>

\* is_prime: one pass of the loop over small_primes, or the call of
\* miller_rabin after the last one
SmallPrimesStep ==
    /\ pc = "small_primes"
    /\ IF k > Len(small_primes)
       THEN /\ pc' = "miller_rabin"
            /\ UNCHANGED <<k, result>>
       ELSE LET r == SmallPrimeCheck(candidate, k)
            IN  IF r = "next"
                THEN k' = k + 1 /\ UNCHANGED <<pc, result>>
                ELSE Return(r = "true") /\ k' = k
    /\ UNCHANGED <<candidate, d, t, trial, v, i>>
    /\ UNCHANGED <<hashVars, accVars, pairVars>>

\* miller_rabin: d = candidate - 1 (a BigUint subtraction, which panics
\* below zero), t = 0
MillerRabinEntry ==
    /\ pc = "miller_rabin"
    /\ IF candidate = 0
       THEN pc' = "panic" /\ UNCHANGED <<d, t>>
       ELSE pc' = "factor_twos" /\ d' = candidate - 1 /\ t' = 0
    /\ UNCHANGED <<candidate, k, trial, v, i, result>>
    /\ UNCHANGED <<hashVars, accVars, pairVars>>

\* miller_rabin: while d.modpow(1, 2) == 0 { d /= 2; t += 1 }
FactorTwosStep ==
    /\ pc = "factor_twos"
    /\ IF ModPow(d, 1, 2) = 0
       THEN d' = d \div 2 /\ t' = t + 1 /\ UNCHANGED <<pc, trial>>
       ELSE pc' = "trial" /\ trial' = 0 /\ UNCHANGED <<d, t>>
    /\ UNCHANGED <<candidate, k, v, i, result>>
    /\ UNCHANGED <<hashVars, accVars, pairVars>>

\* miller_rabin: the head of the for loop; a trial draws a and computes
\* v = a^d mod candidate (gen_biguint_range panics on an empty range)
TrialStep ==
    /\ pc = "trial"
    /\ IF trial = Trials
       THEN Return(TRUE) /\ UNCHANGED <<trial, v, i>>
       ELSE IF ~(2 < candidate - 1)
       THEN pc' = "panic" /\ UNCHANGED <<trial, v, i, result>>
       ELSE \E wit \in WitnessChoices(candidate) :
               /\ v' = ModPow(wit, d, candidate)
               /\ IF v' # 1
                  THEN pc' = "square" /\ i' = 0 /\ trial' = trial
                  ELSE pc' = pc /\ i' = i /\ trial' = trial + 1
               /\ result' = result
    /\ UNCHANGED <<candidate, k, d, t>>
    /\ UNCHANGED <<hashVars, accVars, pairVars>>

\* miller_rabin: one test of the inner while loop (t - 1 is a BigUint
\* subtraction)
SquareStep ==
    /\ pc = "square"
    /\ IF v # candidate - 1
       THEN IF t = 0
            THEN pc' = "panic" /\ UNCHANGED <<trial, v, i, result>>
            ELSE IF i = t - 1
            THEN Return(FALSE) /\ UNCHANGED <<trial, v, i>>
            ELSE LET body == SquareLoopBody(candidate, v, i)
                 IN  /\ i' = body.i /\ v' = body.v
                     /\ UNCHANGED <<pc, trial, result>>
       ELSE pc' = "trial" /\ trial' = trial + 1 /\ UNCHANGED <<v, i, result>>
    /\ UNCHANGED <<candidate, k, d, t>>
    /\ UNCHANGED <<hashVars, accVars, pairVars>>

NextPrime ==
    \/ IsPrimeEntry
    \/ SmallPrimesStep
    \/ MillerRabinEntry
    \/ FactorTwosStep
    \/ TrialStep
    \/ SquareStep

SpecIsPrime == InitPrime /\ [][NextPrime]_vars
\* is_prime is one sequential call: it keeps running until it returns
FairSpecIsPrime == SpecIsPrime /\ WF_vars(NextPrime)

(***************************************************************************)
(* Calls of hash_value_to_prime on one (value, nonce) pair.                *)
(***************************************************************************)
InitHash ==
    /\ h_value \in Values /\ h_nonce \in Nonces
    /\ h_candidate = 0 /\ h_pc = "idle" /\ h_returned = <<>>
    /\ IdlePrime /\ IdleAcc /\ IdlePair

\* the call: candidate = from_bytes_be(hash(value ++ nonce))
HashEntry ==
    /\ h_pc = "idle"
    /\ Len(h_returned) < MaxInvocations
    /\ h_candidate' = FirstCandidate(h_value, h_nonce)
    /\ h_pc' = "loop"
    /\ UNCHANGED <<h_value, h_nonce, h_returned>>
    /\ UNCHANGED <<primeVars, accVars, pairVars>>

\* one pass of the loop
HashLoopStep ==
    /\ h_pc = "loop"
    /\ \E r \in is_prime(h_candidate) :
          IF r
          THEN /\ h_returned' = Append(h_returned, h_candidate)
               /\ h_pc' = "idle"
               /\ UNCHANGED h_candidate
          ELSE /\ h_candidate' = h_candidate + 1
               /\ UNCHANGED <<h_pc, h_returned>>
    /\ UNCHANGED <<h_value, h_nonce>>
    /\ UNCHANGED <<primeVars, accVars, pairVars>>

NextHash ==
    \/ HashEntry
    \/ HashLoopStep

SpecHash == InitHash /\ [][NextHash]_vars

(***************************************************************************)
(* SetAccumulator over a MemStore.                                         *)
(***************************************************************************)
\* impl Storer for MemStore
get_generator == generator
get_members_list == members
get_modulus == modulo
get_state == state
set_state(new_state) == state' = new_state

\* HashMap::contains_key and HashMap::insert
contains_key_always(map, key) == TRUE
contains_key(map, key) == key \in DOMAIN map
insert_alone(map, key, val) == [x \in {key} |-> val]
insert(map, key, val) ==
    [x \in DOMAIN map \cup {key} |-> IF x = key THEN val ELSE map[x]]

\* add: "compute the new state"
new_state_swapped(st, exponent, modulus) == ModPow(exponent, st, modulus)
new_state(st, exponent, modulus) == ModPow(st, exponent, modulus)

\* the orders in which a HashMap may hand out its keys
Orders(keys) ==
    {o \in [1..Cardinality(keys) -> keys] : \A x \in keys : \E j \in DOMAIN o : o[j] = x}

\* get_witness: the for loop over the members, handed out in the order o,
\* from the j-th on, entered with a witness of the set witnesses: the set of
\* the values witness may have after the loop
RECURSIVE WitnessLoop(_, _, _, _)
WitnessLoop(o, j, witnesses, val) ==
    IF j > Len(o) THEN witnesses
    ELSE IF o[j] # val
    THEN WitnessLoop(o, j + 1,
             {ModPow(witness, exponent, get_modulus) :
                 witness \in witnesses,
                 exponent \in hash_value_to_prime(o[j], get_members_list[o[j]])},
             val)
    ELSE WitnessLoop(o, j + 1, witnesses, val)

None(val) == [kind |-> "None", value |-> val, witness |-> 0, nonce |-> <<>>]
Panic(val) == [kind |-> "panic", value |-> val, witness |-> 0, nonce |-> <<>>]
Some(val, witness, nonce) ==
    [kind |-> "Some", value |-> val, witness |-> witness, nonce |-> nonce]

\* get_witness(value): the set of the values it may return (Panic is the
\* unwrap of a missing entry)
get_witness(val) ==
    IF ~contains_key(get_members_list, val) THEN {None(val)}
    ELSE LET witnesses ==
                 UNION {WitnessLoop(o, 1, {get_generator}, val) :
                           o \in Orders(DOMAIN get_members_list)}
         IN  IF val \in DOMAIN get_members_list
             THEN {Some(val, witness, get_members_list[val]) : witness \in witnesses}
             ELSE {Panic(val)}

\* test_add_and_verify: the modulus is the product of two distinct primes,
\* the generator is below it, the state is the generator, no members.
\* Every power of the generators 0 and 1 is the generator itself, so the
\* generators of the model start at 2.
Moduli == {11 * 13, 1009 * 1013}

Init ==
    /\ modulo \in Moduli
    /\ generator \in 2..MaxGenerator
    /\ state = generator
    /\ members = <<>>
    /\ adds = <<>> /\ ret = NoResult
    /\ IdlePrime /\ IdleHash /\ IdlePair

Add(val) ==
    /\ Len(adds) < MaxAdds
    /\ \E nonce \in Nonces :
          \E exponent \in hash_value_to_prime(val, nonce) :
             /\ set_state(new_state(get_state, exponent, get_modulus))
             /\ members' = insert(get_members_list, val, nonce)
             /\ adds' = Append(adds, [value |-> val, nonce |-> nonce,
                                      exponent |-> exponent])
    /\ ret' = [NoResult EXCEPT !.kind = "unit"]
    /\ UNCHANGED <<generator, modulo>>
    /\ UNCHANGED <<primeVars, hashVars, pairVars>>

GetWitness(val) ==
    /\ ret' \in get_witness(val)
    /\ UNCHANGED <<generator, members, modulo, state, adds>>
    /\ UNCHANGED <<primeVars, hashVars, pairVars>>

Next ==
    \/ \E val \in Values : Add(val)
    \/ \E val \in Values : GetWitness(val)

Spec == Init /\ [][Next]_vars

(***************************************************************************)
(* get_distinct_primes: two threads run get_prime, the main thread joins   *)
(* them and samples b again while it equals a.                             *)
(***************************************************************************)
\* rng.gen_biguint(size_in_bits): any number of at most size_in_bits bits
gen_biguint(size_in_bits) == 0 .. (2 ^ size_in_bits - 1)

\* "if a != b"
differ_unchecked(x, y) == TRUE
differ(x, y) == x # y

InitPair ==
    /\ gp = [s \in Searchers |-> [pc |-> "idle", candidate |-> 0]]
    /\ main_pc = "spawn_a" /\ a = 0 /\ b = 0 /\ accepted = {}
    /\ IdlePrime /\ IdleHash /\ IdleAcc

Start(s) == gp' = [gp EXCEPT ![s] = [pc |-> "sample", candidate |-> 0]]

SpawnA ==
    /\ main_pc = "spawn_a"
    /\ Start("join_handle_a")
    /\ main_pc' = "spawn_b"
    /\ UNCHANGED <<a, b, accepted>>
    /\ UNCHANGED <<primeVars, hashVars, accVars>>

SpawnB ==
    /\ main_pc = "spawn_b"
    /\ Start("join_handle_b")
    /\ main_pc' = "join_a"
    /\ UNCHANGED <<a, b, accepted>>
    /\ UNCHANGED <<primeVars, hashVars, accVars>>

\* get_prime: let candidate = rng.gen_biguint(size_in_bits)
GetPrimeSample(s) ==
    /\ gp[s].pc = "sample"
    /\ \E c \in gen_biguint(SizeInBits) :
          gp' = [gp EXCEPT ![s] = [pc |-> "test", candidate |-> c]]
    /\ UNCHANGED <<main_pc, a, b, accepted>>
    /\ UNCHANGED <<primeVars, hashVars, accVars>>

\* get_prime: if is_prime(&candidate) { return candidate }
GetPrimeTest(s) ==
    /\ gp[s].pc = "test"
    /\ \E r \in is_prime(gp[s].candidate) :
          IF r
          THEN /\ gp' = [gp EXCEPT ![s].pc = "done"]
               /\ accepted' = accepted \cup {gp[s].candidate}
          ELSE /\ gp' = [gp EXCEPT ![s].pc = "sample"]
               /\ UNCHANGED accepted
    /\ UNCHANGED <<main_pc, a, b>>
    /\ UNCHANGED <<primeVars, hashVars, accVars>>

\* let a = join_handle_a.join().unwrap()
JoinA ==
    /\ main_pc = "join_a"
    /\ gp["join_handle_a"].pc = "done"
    /\ a' = gp["join_handle_a"].candidate
    /\ main_pc' = "join_b"
    /\ UNCHANGED <<gp, b, accepted>>
    /\ UNCHANGED <<primeVars, hashVars, accVars>>

\* let mut b = join_handle_b.join().unwrap()
JoinB ==
    /\ main_pc = "join_b"
    /\ gp["join_handle_b"].pc = "done"
    /\ b' = gp["join_handle_b"].candidate
    /\ main_pc' = "loop"
    /\ UNCHANGED <<gp, a, accepted>>
    /\ UNCHANGED <<primeVars, hashVars, accVars>>

\* loop { if a != b { return (a, b) } b = get_prime(size_in_bits) }: the test
LoopTest ==
    /\ main_pc = "loop"
    /\ IF differ(a, b)
       THEN main_pc' = "returned" /\ UNCHANGED gp
       ELSE main_pc' = "get_prime" /\ Start("main")
    /\ UNCHANGED <<a, b, accepted>>
    /\ UNCHANGED <<primeVars, hashVars, accVars>>

\* the assignment b = get_prime(size_in_bits), when the call has returned
Resampled ==
    /\ main_pc = "get_prime"
    /\ gp["main"].pc = "done"
    /\ b' = gp["main"].candidate
    /\ main_pc' = "loop"
    /\ UNCHANGED <<gp, a, accepted>>
    /\ UNCHANGED <<primeVars, hashVars, accVars>>

NextPair ==
    \/ SpawnA
    \/ SpawnB
    \/ \E s \in Searchers : GetPrimeSample(s)
    \/ \E s \in Searchers : GetPrimeTest(s)
    \/ JoinA
    \/ JoinB
    \/ LoopTest
    \/ Resampled

SpecPair == InitPair /\ [][NextPair]_vars

(***************************************************************************)
(* Properties.                                                             *)
(***************************************************************************)
\* what a verifier computes from (value, witness, nonce): the set of the
\* verdicts of witness^hash_value_to_prime(value, nonce) mod modulus == state
Verdicts(r) ==
    {get_state = ModPow(r.witness, exponent, get_modulus) :
        exponent \in hash_value_to_prime(r.value, r.nonce)}

\* the exponents computed by the add calls so far, in the order of the calls
Exponents == [j \in 1..Len(adds) |-> adds[j].exponent]

\* generator raised to es[1], then to es[2], ..., each time mod modulus
RECURSIVE PowerChain(_, _)
PowerChain(es, n) ==
    IF n = 0 THEN generator
    ELSE ModPow(PowerChain(es, n - 1), es[n], modulo)

\* the product of es[1..n], or -1 when it is 2^31 or more
RECURSIVE Product(_, _)
Product(es, n) ==
    IF n = 0 THEN 1
    ELSE LET rest == Product(es, n - 1)
         IN  IF rest = -1 \/ rest > 2147483647 \div es[n] THEN -1
             ELSE rest * es[n]

\* the exponent of the last add call of the member mem
LastExponentOf(mem) ==
    LET last == CHOOSE j \in 1..Len(adds) :
                    /\ adds[j].value = mem
                    /\ \A n \in j + 1 .. Len(adds) : adds[n].value # mem
    IN  adds[last].exponent

\* n is a prime number
IsPrimeNumber(n) ==
    n >= 2 /\ \A q \in 2..1023 : (q * q <= n) => (n % q # 0)

\* n is a multiple of an entry of small_primes other than n itself
HasTableFactor(n) ==
    \E kk \in 1..Len(small_primes) :
        n # small_primes[kk] /\ n % small_primes[kk] = 0

\* C1 (as claimed): after a sequence of add calls that ends with add(v),
\* get_witness(v) returns Some((witness, nonce)) and
\* witness^hash_value_to_prime(v, nonce) mod modulus is the store's state.
C1_RoundTrip ==
    (Len(adds) > 0 /\ ret.kind \in {"Some", "None", "panic"}
        /\ ret.value = adds[Len(adds)].value)
    => (ret.kind = "Some" /\ Verdicts(ret) = {TRUE})

\* C2 (as claimed): after three adds of pairwise distinct values, every one of
\* the three has a witness, and every witness get_witness may return for it
\* verifies against the final state.
C2_AllThreeVerify ==
    (Len(adds) = 3 /\ Cardinality({adds[j].value : j \in 1..3}) = 3)
    => \A val \in DOMAIN members :
          \A r \in get_witness(val) : r.kind = "Some" /\ Verdicts(r) = {TRUE}

\* C3: the state is the generator raised to the exponent of every add call
\* so far, one after the other, mod modulus; it is generator^(the product of
\* these exponents) mod modulus (computed where the product is below 2^31).
C3_StateIsGeneratorPower ==
    /\ state = PowerChain(Exponents, Len(adds))
    /\ Product(Exponents, Len(adds)) # -1
          => state = ModPow(generator, Product(Exponents, Len(adds)), modulo)

\* C3, witness: two adds of the same value, and the second changed the state
C3_SecondAddChangedState ==
    /\ Len(adds) = 2 /\ adds[1].value = adds[2].value
    /\ state # ModPow(generator, adds[1].exponent, modulo)
    /\ state = ModPow(generator, adds[1].exponent * adds[2].exponent, modulo)

\* C4: get_witness of a value that no add call was given returns None.
C4_NeverAddedIsNone ==
    (ret.kind \in {"Some", "None", "panic"}
        /\ \A j \in 1..Len(adds) : adds[j].value # ret.value)
    => ret.kind = "None"

\* C4, witness: after some add, get_witness of another value returned None
C4_NoneAfterAdds ==
    /\ Len(adds) > 0 /\ ret.kind = "None"
    /\ \A j \in 1..Len(adds) : adds[j].value # ret.value

\* C5 (as claimed): two invocations of hash_value_to_prime on the same
\* (value, nonce) return the same prime.
C5_SamePrimeTwice ==
    Len(h_returned) >= 2 => h_returned[1] = h_returned[2]

\* C6 (as claimed): is_prime returns true for every prime and false for every
\* other number.
C6_ClassifiesEveryNumber ==
    pc = "returned" => result = IsPrimeNumber(candidate)

\* C6 (amended): is_prime returns true for every prime, and false for 0, for 1
\* and for every composite that has a prime factor below 1000; what it
\* returns true for is a prime or a composite with no prime factor below 1000.
C6_ClassifiesUpToTable ==
    pc = "returned" =>
        /\ result \in BOOLEAN
        /\ IsPrimeNumber(candidate) => result = TRUE
        /\ (candidate < 2 \/ HasTableFactor(candidate)) => result = FALSE
        /\ result = TRUE =>
              \/ IsPrimeNumber(candidate)
              \/ candidate >= 2 /\ ~HasTableFactor(candidate)

\* C6, witness: a prime above the table went through the five trials
C6_PrimeAcceptedByTrials ==
    /\ pc = "returned" /\ result = TRUE /\ trial = Trials
    /\ IsPrimeNumber(candidate)

\* C7: every call of is_prime returns a boolean.
C7_Terminates == <>(pc = "returned" /\ result \in BOOLEAN)

\* C7, witness: a call returned after the squaring loop ran at least twice
\* on a candidate with t > 2
C7_ReturnedAfterSquaring ==
    pc = "returned" /\ result \in BOOLEAN /\ t > 2 /\ i > 1

\* C8: get_distinct_primes returns, after both joins, a pair of different
\* values that is_prime accepted.
C8_DistinctAccepted ==
    main_pc = "returned" =>
        /\ a # b
        /\ a \in accepted /\ b \in accepted
        /\ gp["join_handle_a"].pc = "done" /\ gp["join_handle_b"].pc = "done"
        /\ a = gp["join_handle_a"].candidate

\* C8, witness: the two threads returned the same value, and b was sampled
\* again
C8_CollisionResampled ==
    /\ main_pc = "returned"
    /\ gp["join_handle_b"].candidate = a
    /\ gp["main"].pc = "done" /\ b = gp["main"].candidate

\* C9: a step in which get_witness returns leaves generator, modulus, state
\* and members as they were; no step changes generator or modulus or removes
\* a key of members.
C9_Frame ==
    [][/\ (ret' # ret /\ ret'.kind \in {"Some", "None", "panic"})
            => UNCHANGED <<generator, modulo, state, members>>
       /\ generator' = generator /\ modulo' = modulo
       /\ DOMAIN members \subseteq DOMAIN members']_vars

\* C9, witness: get_witness returned Some on a store of two members
C9_SomeWithTwoMembers ==
    ret.kind = "Some" /\ Cardinality(DOMAIN members) = 2

\* C10 (as claimed): every value get_witness(v) may return for a member v has
\* the nonce stored under v and the witness generator^(the product of the
\* exponents of the other members) mod modulus, the generator when v is the
\* only member.
C10_WitnessOfOthers ==
    \A val \in DOMAIN members :
       LET others == DOMAIN members \ {val}
           o      == CHOOSE f \in Orders(others) : TRUE
           es     == [j \in 1..Len(o) |-> LastExponentOf(o[j])]
       IN  \A r \in get_witness(val) :
              /\ r.kind = "Some"
              /\ r.nonce = members[val]
              /\ r.witness = PowerChain(es, Len(es))
              /\ others = {} => r.witness = generator

====
